---- MODULE Spec2Model ----
(***************************************************************************)
(* A model of the moactl / rosa command line client: the run functions of  *)
(* 'create cluster', 'create user', 'install addon', 'delete idp' and      *)
(* 'describe cluster', and the validation helpers of 'create cluster'.     *)
(*                                                                         *)
(* Strings whose contents matter (cluster keys, version identifiers, the   *)
(* comma separated user lists) are sequences of tokens, the empty string   *)
(* being <<>>.  Strings that are only compared (regions, machine types)    *)
(* are TLA+ strings, the empty string being "".                            *)
(* Instants and durations are integers counting ticks, TicksPerSecond of   *)
(* them in a second; the zero time.Time is 0.                              *)
(***************************************************************************)
EXTENDS Integers, Sequences, FiniteSets, TLC

VARIABLES
    cmd,          \* the command whose run function executes
    interactive,  \* interactive.Enabled()
    args,         \* the package level args struct filled from the flags
    argv,         \* the positional command line arguments
    server,       \* what the remote service holds during the run
    pc,           \* the position in the run function
    loc,          \* the local variables of the run function
    trace,        \* the externally visible events of the run, in order
    exitStatus    \* the exit status of the process

vars == <<cmd, interactive, args, argv, server, pc, loc, trace, exitStatus>>

----------------------------------------------------------------------------
(* Bounds of the model.                                                    *)

MaxKeyLen == 2
MaxVerLen == 2
MaxListLen == 2
MaxDuration == 2
TicksPerSecond == 4
MaxInputs == 3
MaxAdminsLen == 2

----------------------------------------------------------------------------
(* Strings.                                                                *)

RECURSIVE StringsUpTo(_, _)
StringsUpTo(alphabet, n) ==
    IF n = 0 THEN {<<>>}
    ELSE LET shorter == StringsUpTo(alphabet, n - 1)
         IN  shorter \cup {Append(s, c) : s \in shorter, c \in alphabet}

RECURSIVE ListsUpTo(_, _)
ListsUpTo(values, n) ==
    IF n = 0 THEN {<<>>}
    ELSE LET shorter == ListsUpTo(values, n - 1)
         IN  shorter \cup {Append(l, v) : l \in shorter, v \in values}

Range(s) == {s[i] : i \in 1..Len(s)}

NoErr == ""

----------------------------------------------------------------------------
(* Cluster keys.                                                           *)

Letters == {"a", "b", "z", "A", "Z"}
Digits == {"0", "7", "9"}
KeyAlphabet == {"a", "-", "!"}
Keys == StringsUpTo(KeyAlphabet, MaxKeyLen)

IsKeyChar(c) == c \in Letters \cup Digits \cup {"_", "-"}

IsValidClusterKey(key) ==
    /\ Len(key) > 0
    /\ \A i \in 1..Len(key) : IsKeyChar(key[i])

----------------------------------------------------------------------------
(* Versions and machine types: create cluster's validation helpers.        *)

VersionPrefix == <<"openshift-v">>
VersionAlphabet == {"openshift-v", "4"}
VersionStrings == StringsUpTo(VersionAlphabet, MaxVerLen)
MachineTypes == {"m5.xlarge", "r5.xlarge"}

\* validateVersion without version = "openshift-v" + version
validateVersionNoPrefix(version, versionList) ==
    IF version # <<>>
    THEN IF ~ \E i \in 1..Len(versionList) : versionList[i] = version
         THEN [val |-> version, err |-> "A valid version number must be specified"]
         ELSE [val |-> version, err |-> NoErr]
    ELSE [val |-> version, err |-> NoErr]

validateVersion(version, versionList) ==
    IF version # <<>>
    THEN LET hasVersion == \E i \in 1..Len(versionList) : versionList[i] = version
         IN  IF ~hasVersion
             THEN [val |-> version, err |-> "A valid version number must be specified"]
             ELSE [val |-> VersionPrefix \o version, err |-> NoErr]
    ELSE [val |-> version, err |-> NoErr]

validateMachineType(machineType, machineTypeList) ==
    IF machineType # ""
    THEN LET hasMachineType ==
                 \E i \in 1..Len(machineTypeList) : machineTypeList[i] = machineType
         IN  IF ~hasMachineType
             THEN [val |-> machineType,
                   err |-> "A valid machine type number must be specified"]
             ELSE [val |-> machineType, err |-> NoErr]
    ELSE [val |-> machineType, err |-> NoErr]

----------------------------------------------------------------------------
(* Expiration.  A time string is <<>> (empty), <<s, f>> (a well formed     *)
(* RFC3339 instant, s seconds and f ticks), or anything else (malformed).  *)

TimeStrings == {<<>>, <<0>>, <<1, 0>>, <<1, 1>>}
Durations == {0 - MaxDuration, 0, MaxDuration}
Instants == MaxDuration..(MaxDuration + TicksPerSecond - 1)

TimeParse(layout, s) ==
    IF Len(s) = 2
    THEN [val |-> s[1] * TicksPerSecond + s[2], err |-> NoErr]
    ELSE [val |-> 0, err |-> "cannot parse"]

parseRFC3339(s) ==
    LET nano == TimeParse("RFC3339Nano", s)
    IN  IF nano.err = NoErr THEN nano ELSE TimeParse("RFC3339", s)

Round(t, d) ==
    LET r == t % d
    IN  IF r + r < d THEN t - r ELSE t + d - r

ErrAtMostOne == "At most one of 'expiration-time' or 'expiration' may be specified"

\* validateExpiration with || in place of && in its first test
validateExpirationEither(a, now) ==
    IF Len(a.expirationTime) > 0 \/ a.expirationDuration # 0
    THEN [val |-> 0, err |-> ErrAtMostOne]
    ELSE [val |-> 0, err |-> NoErr]

validateExpiration(a, now) ==
    IF Len(a.expirationTime) > 0 /\ a.expirationDuration # 0
    THEN [val |-> 0, err |-> ErrAtMostOne]
    ELSE LET parsed == parseRFC3339(a.expirationTime)
         IN  IF Len(a.expirationTime) > 0 /\ parsed.err # NoErr
             THEN [val |-> 0, err |-> "Failed to parse expiration-time"]
             ELSE IF a.expirationDuration # 0
                  THEN [val |-> Round(now + a.expirationDuration, TicksPerSecond),
                        err |-> NoErr]
                  ELSE IF Len(a.expirationTime) > 0
                       THEN [val |-> parsed.val, err |-> NoErr]
                       ELSE [val |-> 0, err |-> NoErr]

----------------------------------------------------------------------------
(* Events of a run.  kind is "build" (a client or connection is built),    *)
(* "call" (a request to AWS or OCM), "validate" (a validation step),       *)
(* "prompt" (an interactive question), "error" (reporter.Errorf),          *)
(* "close" (the deferred Close of the connection), "confirm" (a return of   *)
(* confirm.Confirm, with the value returned).  given marks an event that   *)
(* consumed an input of the user or of the environment.                    *)

NoVal == "-"

Ev(kind, what, ok) ==
    [kind |-> kind, what |-> what, ok |-> ok, given |-> FALSE,
     dflt |-> NoVal, val |-> NoVal]

EvVal(kind, what, ok, given, dflt, val) ==
    [kind |-> kind, what |-> what, ok |-> ok, given |-> given,
     dflt |-> dflt, val |-> val]

Events(kind) == {i \in 1..Len(trace) : trace[i].kind = kind}
Happened(kind, what) == \E i \in 1..Len(trace) : trace[i].kind = kind /\ trace[i].what = what
Failures == {i \in 1..Len(trace) : ~trace[i].ok}

----------------------------------------------------------------------------
(* Steps common to the run functions.                                      *)

Finish(evs, status) ==
    /\ pc' = "done"
    /\ exitStatus' = status
    /\ trace' = trace \o evs
    /\ UNCHANGED <<cmd, interactive, args, argv, server, loc>>

\* an exit that lets the deferred Close of the connection run
FailClosing(evs, msg) ==
    Finish(evs \o <<Ev("error", msg, TRUE), Ev("close", "ocm", TRUE)>>, 1)

\* reporter.Errorf(...) followed by os.Exit(1)
Fail(evs, msg) == Finish(evs \o <<Ev("error", msg, TRUE)>>, 1)

Goto(next, evs, newloc) ==
    /\ pc' = next
    /\ trace' = trace \o evs
    /\ loc' = newloc
    /\ UNCHANGED <<cmd, interactive, args, argv, server, exitStatus>>

After(steps, p) ==
    LET i == CHOOSE j \in 1..Len(steps) : steps[j] = p
    IN  steps[i + 1]

At(c, p) == cmd = c /\ pc = p

\* a step that succeeds, or reports msg and exits with status 1
Attempt(next, kind, what, msg) ==
    \E ok \in BOOLEAN :
        IF ok THEN Goto(next, <<Ev(kind, what, TRUE)>>, loc)
        ELSE Fail(<<Ev(kind, what, FALSE)>>, msg)

\* return from run: the deferred ocmConnection.Close()
Return ==
    \E ok \in BOOLEAN :
        Finish(<<Ev("close", "ocm", ok)>>
                   \o (IF ok THEN <<>>
                       ELSE <<Ev("error", "Failed to close OCM connection: %v", TRUE)>>),
               0)

ErrInvalidKey == "Cluster name, identifier or external identifier '%s' isn't valid"

ClusterStates == {"ready", "installing"}

\* a cluster that is still installing taken as ready
IsReadyOrInstalling(state) == state \in {"ready", "installing"}

\* cluster.State() != cmv1.ClusterStateReady
IsReady(state) == state = "ready"

----------------------------------------------------------------------------
(* The interactive prompt layer (pkg/interactive).  A prompt that is asked *)
(* ends in an error (the user interrupts), in an empty answer, which falls *)
(* back to the default, or in an answer drawn from choices.  The run       *)
(* consumes at most MaxInputs inputs that differ from their defaults.      *)

InputsOf(a, defaults) == Cardinality({f \in DOMAIN a : a[f] # defaults[f]})
InputsGiven == Cardinality({i \in 1..Len(trace) : trace[i].given})

PromptResult(err, empty, dflt, val) ==
    [asked |-> TRUE, err |-> err, empty |-> empty, dflt |-> dflt, val |-> val]

NotAsked(dflt) ==
    [asked |-> FALSE, err |-> FALSE, empty |-> FALSE, dflt |-> dflt, val |-> dflt]

\* GetString, GetBool, GetInt, GetIPNet: any answer of the type is accepted.
GetValue(dflt, zero, required, choices, more) ==
    {PromptResult(TRUE, FALSE, dflt, zero)}
        \cup (IF required /\ dflt = zero THEN {} ELSE {PromptResult(FALSE, TRUE, dflt, dflt)})
        \cup (IF more THEN {PromptResult(FALSE, FALSE, dflt, v) : v \in choices} ELSE {})

\* GetOption: the answer is one of the options.
GetOption(dflt, zero, required, options, more) ==
    {PromptResult(TRUE, FALSE, dflt, zero)}
        \cup (IF (dflt = zero /\ ~required) \/ dflt \in Range(options)
              THEN {PromptResult(FALSE, TRUE, dflt, dflt)} ELSE {})
        \cup (IF more THEN {PromptResult(FALSE, FALSE, dflt, v) : v \in Range(options)} ELSE {})

PromptEvents(what, r) ==
    IF r.asked
    THEN <<EvVal("prompt", what, ~r.err, ~r.err /\ ~r.empty, r.dflt, r.val)>>
    ELSE <<>>

----------------------------------------------------------------------------
(* create cluster: the flags (init) and what the remote service offers.    *)

CC == "create cluster"

CCFlags ==
    <<"name", "region", "version", "multiAZ", "expirationTime", "expirationDuration",
      "computeMachineType", "computeNodes", "machineCIDR", "serviceCIDR", "podCIDR",
      "hostPrefix", "private", "watch">>

CCDefaults ==
    [name |-> <<>>, region |-> "", version |-> <<>>, multiAZ |-> FALSE,
     expirationTime |-> <<>>, expirationDuration |-> 0, computeMachineType |-> "",
     computeNodes |-> 0, machineCIDR |-> "", serviceCIDR |-> "", podCIDR |-> "",
     hostPrefix |-> 0, private |-> FALSE, watch |-> FALSE]

ClusterNames == {<<>>, <<"a", "-", "7", "_">>, <<"a", "!">>}

FlagValues(f) ==
    CASE f = "name" -> ClusterNames
      [] f = "region" -> {"", "us-east-1", "eu-north-9"}
      [] f = "version" -> {<<>>, <<"4">>, <<"4", "4">>, <<"openshift-v", "4">>}
      [] f = "expirationTime" -> TimeStrings
      [] f = "expirationDuration" -> Durations
      [] f = "computeMachineType" -> {""} \cup MachineTypes
      [] f = "computeNodes" -> {0, 4}
      [] f = "machineCIDR" -> {"", "10.0.0.0/16"}
      [] f = "serviceCIDR" -> {"", "172.30.0.0/16"}
      [] f = "podCIDR" -> {"", "10.128.0.0/14"}
      [] f = "hostPrefix" -> {0, 23}
      [] OTHER -> BOOLEAN

RECURSIVE CCArgs(_)
CCArgs(i) ==
    IF i = 0 THEN {CCDefaults}
    ELSE LET prev == CCArgs(i - 1)
             f == CCFlags[i]
         IN  prev \cup {[a EXCEPT ![f] = v] :
                          a \in {x \in prev : InputsOf(x, CCDefaults) < MaxInputs},
                          v \in FlagValues(f) \ {CCDefaults[f]}}

Catalogues ==
    {[regions |-> <<>>, versions |-> <<>>, machineTypes |-> <<>>],
     [regions |-> <<"us-west-2", "us-east-1">>,
      versions |-> << <<"4", "4">>, <<"openshift-v", "4">>, <<"4">> >>,
      machineTypes |-> <<"r5.xlarge", "m5.xlarge">>]}

SessionRegions == {"us-east-1", "ap-south-9"}

CCLocals ==
    [name |-> <<>>, region |-> "", regionList |-> <<>>, version |-> <<>>,
     versionList |-> <<>>, multiAZ |-> FALSE, computeMachineType |-> "",
     computeMachineTypeList |-> <<>>, computeNodes |-> 0, expiration |-> 0,
     machineCIDR |-> "", serviceCIDR |-> "", podCIDR |-> "", hostPrefix |-> 0,
     private |-> FALSE, created |-> FALSE]

----------------------------------------------------------------------------
(* create cluster: run.                                                    *)

\* run with the prompt for the cluster name ahead of the OCM connection
CCStepsPromptFirst ==
    <<"name", "buildOCM", "getRegion", "region", "version", "multiAZ", "computeMachineType",
      "computeNodes", "expiration", "machineCIDR", "serviceCIDR", "podCIDR",
      "hostPrefix", "private", "create", "return", "done">>

\* run with the question about multiple availability zones ahead of the version
CCStepsMultiAZFirst ==
    <<"buildOCM", "name", "getRegion", "region", "multiAZ", "version", "computeMachineType",
      "computeNodes", "expiration", "machineCIDR", "serviceCIDR", "podCIDR",
      "hostPrefix", "private", "create", "return", "done">>

CCSteps ==
    <<"buildOCM", "name", "getRegion", "region", "version", "multiAZ", "computeMachineType",
      "computeNodes", "expiration", "machineCIDR", "serviceCIDR", "podCIDR",
      "hostPrefix", "private", "create", "return", "done">>

CCNext == After(CCSteps, pc)

InitCC ==
    /\ cmd = CC
    /\ interactive \in BOOLEAN
    /\ args \in CCArgs(Len(CCFlags))
    /\ argv = <<>>
    /\ server \in Catalogues
    /\ pc = CCSteps[1]
    /\ loc = CCLocals
    /\ trace = <<>>
    /\ exitStatus = 0

\* a further input that differs from its default may be consumed
CCMore == InputsOf(args, CCDefaults) + InputsGiven < MaxInputs

\* a prompt only for a field whose flag was not given
CCAskMissing(f) == interactive /\ args[f] = CCDefaults[f]

\* if interactive.Enabled() { ... }
CCAsk(f) == interactive

\* prompts without Default:
CCDefaultZero(f) == CCDefaults[f]

\* Default: of the interactive.Input of each prompt
CCDefault(f) == IF f = "region" THEN loc.region ELSE args[f]

CCNameValid(name) == IsValidClusterKey(name)

\* run without the test of the region
CCRegionAny(region) == TRUE

CCRegionValid(region) == region # ""

\* aws.GetRegion: the flag, or else the region of the default AWS session
GetRegion(region) ==
    IF region # ""
    THEN {[val |-> region, err |-> NoErr, given |-> FALSE]}
    ELSE {[val |-> "", err |-> "session", given |-> FALSE],
          [val |-> "", err |-> NoErr, given |-> FALSE]}
             \cup (IF CCMore
                   THEN {[val |-> r, err |-> NoErr, given |-> TRUE] : r \in SessionRegions}
                   ELSE {})

RemoveFirst(s, tok) ==
    IF \E i \in 1..Len(s) : s[i] = tok
    THEN LET k == CHOOSE i \in 1..Len(s) : s[i] = tok /\ \A j \in 1..(i - 1) : s[j] # tok
         IN  SubSeq(s, 1, k - 1) \o SubSeq(s, k + 1, Len(s))
    ELSE s

\* the IDs of the server taken as they are
getVersionListRaw(ids) == ids

getVersionList(ids) == [i \in 1..Len(ids) |-> RemoveFirst(ids[i], VersionPrefix[1])]
getMachineTypeList(ids) == [i \in 1..Len(ids) |-> ids[i]]
getRegionList(ids) == [i \in 1..Len(ids) |-> ids[i]]

CCBuildOCM ==
    /\ At(CC, "buildOCM")
    /\ \E ok \in BOOLEAN :
         IF ok THEN Goto(CCNext, <<Ev("build", "ocm", TRUE)>>, loc)
         ELSE Fail(<<Ev("build", "ocm", FALSE)>>, "Failed to create OCM connection")

CCName ==
    /\ At(CC, "name")
    /\ \E r \in IF CCAsk("name")
                THEN GetValue(CCDefault("name"), <<>>, TRUE, ClusterNames \ {<<>>}, CCMore)
                ELSE {NotAsked(args.name)} :
         IF r.err THEN Fail(PromptEvents("name", r), "Expected a valid cluster name: %s")
         ELSE IF ~CCNameValid(r.val)
              THEN Fail(PromptEvents("name", r) \o <<Ev("validate", "name", FALSE)>>,
                        "Expected a valid cluster name")
              ELSE Goto(CCNext, PromptEvents("name", r) \o <<Ev("validate", "name", TRUE)>>,
                        [loc EXCEPT !.name = r.val])

CCGetRegion ==
    /\ At(CC, "getRegion")
    /\ \E g \in GetRegion(args.region), ok \in BOOLEAN :
         LET got == EvVal("call", "GetRegion", g.err = NoErr, g.given, NoVal, g.val)
         IN  IF g.err # NoErr THEN Fail(<<got>>, "Error getting region: %v")
             ELSE IF ~ok THEN Fail(<<got, Ev("call", "GetRegions", FALSE)>>,
                                   "Failed to retrieve AWS regions: %s")
             ELSE Goto(CCNext, <<got, Ev("call", "GetRegions", TRUE)>>,
                       [loc EXCEPT !.region = g.val,
                                   !.regionList = getRegionList(server.regions)])

CCRegion ==
    /\ At(CC, "region")
    /\ \E r \in IF CCAsk("region")
                THEN GetOption(CCDefault("region"), "", TRUE, loc.regionList, CCMore)
                ELSE {NotAsked(loc.region)} :
         IF r.err THEN Fail(PromptEvents("region", r), "Expected a valid AWS region: %s")
         ELSE IF ~CCRegionValid(r.val)
              THEN Fail(PromptEvents("region", r) \o <<Ev("validate", "region", FALSE)>>,
                        "Expected a valid AWS region")
              ELSE Goto(CCNext, PromptEvents("region", r) \o <<Ev("validate", "region", TRUE)>>,
                        [loc EXCEPT !.region = r.val])

CCVersion ==
    /\ At(CC, "version")
    /\ \E ok \in BOOLEAN :
         IF ~ok THEN Fail(<<Ev("call", "GetVersions", FALSE)>>, "Failed to retrieve versions: %s")
         ELSE LET versionList == getVersionList(server.versions)
                  fetched == <<Ev("call", "GetVersions", TRUE)>>
              IN  \E r \in IF CCAsk("version")
                           THEN GetOption(CCDefault("version"), <<>>, FALSE, versionList, CCMore)
                           ELSE {NotAsked(args.version)} :
                    LET v == validateVersion(r.val, versionList)
                        evs == fetched \o PromptEvents("version", r)
                    IN  IF r.err THEN Fail(evs, "Expected a valid OpenShift version: %s")
                        ELSE IF v.err # NoErr
                             THEN Fail(evs \o <<Ev("validate", "version", FALSE)>>,
                                       "Expected a valid OpenShift version: %s")
                             ELSE Goto(CCNext, evs \o <<Ev("validate", "version", TRUE)>>,
                                       [loc EXCEPT !.version = v.val,
                                                   !.versionList = versionList])

CCMultiAZ ==
    /\ At(CC, "multiAZ")
    /\ \E r \in IF CCAsk("multiAZ")
                THEN GetValue(CCDefault("multiAZ"), FALSE, FALSE, BOOLEAN, CCMore)
                ELSE {NotAsked(args.multiAZ)} :
         IF r.err THEN Fail(PromptEvents("multiAZ", r), "Expected a valid multi-AZ value: %s")
         ELSE Goto(CCNext, PromptEvents("multiAZ", r), [loc EXCEPT !.multiAZ = r.val])

CCMachineType ==
    /\ At(CC, "computeMachineType")
    /\ \E ok \in BOOLEAN :
         IF ~ok THEN Fail(<<Ev("call", "GetMachineTypes", FALSE)>>,
                          "Failed to retrieve machine types: %s")
         ELSE LET list == getMachineTypeList(server.machineTypes)
                  fetched == <<Ev("call", "GetMachineTypes", TRUE)>>
              IN  \E r \in IF CCAsk("computeMachineType")
                           THEN GetOption(CCDefault("computeMachineType"), "", FALSE, list, CCMore)
                           ELSE {NotAsked(args.computeMachineType)} :
                    LET v == validateMachineType(r.val, list)
                        evs == fetched \o PromptEvents("computeMachineType", r)
                    IN  IF r.err THEN Fail(evs, "Expected a valid machine type: %s")
                        ELSE IF v.err # NoErr
                             THEN Fail(evs \o <<Ev("validate", "computeMachineType", FALSE)>>,
                                       "Expected a valid machine type: %s")
                             ELSE Goto(CCNext,
                                       evs \o <<Ev("validate", "computeMachineType", TRUE)>>,
                                       [loc EXCEPT !.computeMachineType = v.val,
                                                   !.computeMachineTypeList = list])

CCComputeNodes ==
    /\ At(CC, "computeNodes")
    /\ \E r \in IF CCAsk("computeNodes")
                THEN GetValue(CCDefault("computeNodes"), 0, FALSE, FlagValues("computeNodes"), CCMore)
                ELSE {NotAsked(args.computeNodes)} :
         IF r.err THEN Fail(PromptEvents("computeNodes", r),
                            "Expected a valid number of compute nodes: %s")
         ELSE Goto(CCNext, PromptEvents("computeNodes", r), [loc EXCEPT !.computeNodes = r.val])

CCExpiration ==
    /\ At(CC, "expiration")
    /\ \E now \in IF args.expirationDuration # 0 THEN Instants ELSE {MaxDuration} :
         LET e == validateExpiration(args, now)
         IN  IF e.err # NoErr
             THEN Fail(<<Ev("validate", "expiration", FALSE)>>, e.err)
             ELSE Goto(CCNext, <<Ev("validate", "expiration", TRUE)>>,
                       [loc EXCEPT !.expiration = e.val])

CCMachineCIDR ==
    /\ At(CC, "machineCIDR")
    /\ \E r \in IF CCAsk("machineCIDR")
                THEN GetValue(CCDefault("machineCIDR"), "", FALSE,
                              FlagValues("machineCIDR") \ {""}, CCMore)
                ELSE {NotAsked(args.machineCIDR)} :
         IF r.err THEN Fail(PromptEvents("machineCIDR", r), "Expected a valid CIDR value: %s")
         ELSE Goto(CCNext, PromptEvents("machineCIDR", r), [loc EXCEPT !.machineCIDR = r.val])

CCServiceCIDR ==
    /\ At(CC, "serviceCIDR")
    /\ \E r \in IF CCAsk("serviceCIDR")
                THEN GetValue(CCDefault("serviceCIDR"), "", FALSE,
                              FlagValues("serviceCIDR") \ {""}, CCMore)
                ELSE {NotAsked(args.serviceCIDR)} :
         IF r.err THEN Fail(PromptEvents("serviceCIDR", r), "Expected a valid CIDR value: %s")
         ELSE Goto(CCNext, PromptEvents("serviceCIDR", r), [loc EXCEPT !.serviceCIDR = r.val])

CCPodCIDR ==
    /\ At(CC, "podCIDR")
    /\ \E r \in IF CCAsk("podCIDR")
                THEN GetValue(CCDefault("podCIDR"), "", FALSE,
                              FlagValues("podCIDR") \ {""}, CCMore)
                ELSE {NotAsked(args.podCIDR)} :
         IF r.err THEN Fail(PromptEvents("podCIDR", r), "Expected a valid CIDR value: %s")
         ELSE Goto(CCNext, PromptEvents("podCIDR", r), [loc EXCEPT !.podCIDR = r.val])

CCHostPrefix ==
    /\ At(CC, "hostPrefix")
    /\ \E r \in IF CCAsk("hostPrefix")
                THEN GetValue(CCDefault("hostPrefix"), 0, FALSE, FlagValues("hostPrefix"), CCMore)
                ELSE {NotAsked(args.hostPrefix)} :
         IF r.err THEN Fail(PromptEvents("hostPrefix", r),
                            "Expected a valid host prefix value: %s")
         ELSE Goto(CCNext, PromptEvents("hostPrefix", r), [loc EXCEPT !.hostPrefix = r.val])

CCPrivate ==
    /\ At(CC, "private")
    /\ \E r \in IF CCAsk("private")
                THEN GetValue(CCDefault("private"), FALSE, FALSE, BOOLEAN, CCMore)
                ELSE {NotAsked(args.private)} :
         IF r.err THEN Fail(PromptEvents("private", r), "Expected a valid private value: %s")
         ELSE Goto(CCNext, PromptEvents("private", r), [loc EXCEPT !.private = r.val])

\* clusterprovider.Spec{...}
clusterConfig ==
    [Name |-> loc.name, Region |-> loc.region, MultiAZ |-> loc.multiAZ,
     Version |-> loc.version, Expiration |-> loc.expiration,
     ComputeMachineType |-> loc.computeMachineType, ComputeNodes |-> loc.computeNodes,
     MachineCIDR |-> loc.machineCIDR, ServiceCIDR |-> loc.serviceCIDR,
     PodCIDR |-> loc.podCIDR, HostPrefix |-> loc.hostPrefix, Private |-> loc.private]

CCCreate ==
    /\ At(CC, "create")
    /\ \E ok \in BOOLEAN :
         LET call == EvVal("call", "CreateCluster", ok, FALSE, NoVal, clusterConfig)
         IN  IF ~ok THEN Fail(<<call>>, "Failed to create cluster: %v")
             ELSE Goto(CCNext,
                       <<call>> \o (IF args.watch THEN <<Ev("call", "WatchLogs", TRUE)>> ELSE <<>>),
                       [loc EXCEPT !.created = TRUE])

CCReturn == At(CC, "return") /\ Return

NextCC ==
    \/ CCBuildOCM \/ CCName \/ CCGetRegion \/ CCRegion \/ CCVersion \/ CCMultiAZ
    \/ CCMachineType \/ CCComputeNodes \/ CCExpiration \/ CCMachineCIDR
    \/ CCServiceCIDR \/ CCPodCIDR \/ CCHostPrefix \/ CCPrivate \/ CCCreate \/ CCReturn

SpecCC == InitCC /\ [][NextCC]_vars

----------------------------------------------------------------------------
(* create user.                                                            *)

CU == "create user"

AdminStrings == StringsUpTo({"u", ","}, MaxAdminsLen)

\* strings.Split(s, ","): the pieces of s between the commas
RECURSIVE Split(_, _)
Split(s, sep) ==
    IF \E i \in 1..Len(s) : s[i] = sep
    THEN LET k == CHOOSE i \in 1..Len(s) : s[i] = sep /\ \A j \in 1..(i - 1) : s[j] # sep
         IN  <<SubSeq(s, 1, k - 1)>> \o Split(SubSeq(s, k + 1, Len(s)), sep)
    ELSE <<s>>

CUSteps ==
    <<"reporter", "logger", "key", "buildAWS", "getCreator", "buildOCM", "getCluster",
      "ready", "prompt", "check", "clusterAdmins", "dedicatedAdmins", "return", "done">>

CUNext == After(CUSteps, pc)

InitCU ==
    /\ cmd = CU
    /\ interactive = FALSE
    /\ args \in [clusterKey : ClusterNames, clusterAdmins : AdminStrings,
                 dedicatedAdmins : AdminStrings]
    /\ argv = <<>>
    /\ server \in [state : ClusterStates]
    /\ pc = CUSteps[1]
    /\ loc = [clusterAdmins |-> <<>>, dedicatedAdmins |-> <<>>, i |-> 1]
    /\ trace = <<>>
    /\ exitStatus = 0

\* rprtr.New().Build(): a failure is printed to stderr, not reported
CUReporter ==
    /\ At(CU, "reporter")
    /\ \E ok \in BOOLEAN :
         IF ok THEN Goto(CUNext, <<>>, loc)
         ELSE Finish(<<Ev("make", "reporter", FALSE)>>, 1)

CULogger ==
    /\ At(CU, "logger")
    /\ \E ok \in BOOLEAN :
         IF ok THEN Goto(CUNext, <<>>, loc)
         ELSE Fail(<<Ev("make", "logger", FALSE)>>, "Failed to create logger: %v")

CUKey ==
    /\ At(CU, "key")
    /\ IF ~IsValidClusterKey(args.clusterKey)
       THEN Fail(<<Ev("validate", "clusterKey", FALSE)>>, ErrInvalidKey)
       ELSE Goto(CUNext, <<Ev("validate", "clusterKey", TRUE)>>, loc)

CUBuildAWS ==
    At(CU, "buildAWS") /\ Attempt(CUNext, "build", "aws", "Failed to create AWS client: %v")

CUGetCreator ==
    At(CU, "getCreator") /\ Attempt(CUNext, "call", "GetCreator", "Failed to get AWS creator: %v")

CUBuildOCM ==
    At(CU, "buildOCM") /\ Attempt(CUNext, "build", "ocm", "Failed to create OCM connection: %v")

CUGetCluster ==
    At(CU, "getCluster") /\ Attempt(CUNext, "call", "GetCluster", "Failed to get cluster '%s': %v")

CUReady ==
    /\ At(CU, "ready")
    /\ IF ~IsReady(server.state)
       THEN Fail(<<Ev("validate", "ready", FALSE)>>, "Cluster '%s' is not yet ready")
       ELSE Goto(CUNext, <<Ev("validate", "ready", TRUE)>>,
                 [loc EXCEPT !.clusterAdmins = args.clusterAdmins,
                             !.dedicatedAdmins = args.dedicatedAdmins])

\* interactive.GetInput: what the user typed, or an error
GetInput(what) ==
    {EvVal("prompt", what, FALSE, FALSE, NoVal, <<>>)}
        \cup {EvVal("prompt", what, TRUE, TRUE, NoVal, v) : v \in AdminStrings}

\* a prompt as soon as one of the lists is empty
CUAskEither(clusterAdmins, dedicatedAdmins) == clusterAdmins = <<>> \/ dedicatedAdmins = <<>>

\* if clusterAdmins == "" && dedicatedAdmins == ""
CUAskLists(clusterAdmins, dedicatedAdmins) == clusterAdmins = <<>> /\ dedicatedAdmins = <<>>

CUPrompt ==
    /\ At(CU, "prompt")
    /\ IF CUAskLists(loc.clusterAdmins, loc.dedicatedAdmins)
       THEN \E c \in GetInput("cluster-admins"), d \in GetInput("dedicated-admins") :
              IF ~c.ok THEN Fail(<<c>>, "Expected a commad-separated list of usernames")
              ELSE IF ~d.ok THEN Fail(<<c, d>>, "Expected a commad-separated list of usernames")
              ELSE Goto(CUNext, <<c, d>>,
                        [loc EXCEPT !.clusterAdmins = c.val, !.dedicatedAdmins = d.val])
       ELSE Goto(CUNext, <<>>, loc)

CUCheck ==
    /\ At(CU, "check")
    /\ IF loc.clusterAdmins = <<>> /\ loc.dedicatedAdmins = <<>>
       THEN Fail(<<Ev("validate", "admins", FALSE)>>,
                 "Expected at least one of 'cluster-admins' or 'dedicated-admins'")
       ELSE Goto(CUNext, <<Ev("validate", "admins", TRUE)>>, loc)

\* `break` in place of `continue`
CUBreak(i, n, ok) == IF ok THEN i + 1 ELSE n + 1

\* the loop variable after an iteration: `continue` moves to the next username
CUContinue(i, n, ok) == i + 1

\* one iteration of `for _, username := range strings.Split(list, ",")`
CUAdd(group, list) ==
    LET usernames == Split(list, ",")
        n == Len(usernames)
        username == usernames[loc.i]
    IN  \E built \in BOOLEAN, added \in BOOLEAN :
          /\ built \/ added
          /\ LET make == EvVal("make", "user", built, FALSE, group, username)
                 send == EvVal("call", "AddUser", added, FALSE, group, username)
                 failed == "Failed to add user '%s' to cluster '%s'"
             IN  IF ~built
                 THEN Goto(pc, <<make, Ev("error", failed, TRUE)>>,
                           [loc EXCEPT !.i = CUContinue(loc.i, n, FALSE)])
                 ELSE IF ~added
                      THEN Goto(pc, <<make, send, Ev("error", failed, TRUE)>>,
                                [loc EXCEPT !.i = CUContinue(loc.i, n, FALSE)])
                      ELSE Goto(pc, <<make, send>>,
                                [loc EXCEPT !.i = CUContinue(loc.i, n, TRUE)])

CUAddClusterAdmin ==
    /\ At(CU, "clusterAdmins")
    /\ loc.clusterAdmins # <<>>
    /\ loc.i <= Len(Split(loc.clusterAdmins, ","))
    /\ CUAdd("cluster-admins", loc.clusterAdmins)

CUClusterAdminsDone ==
    /\ At(CU, "clusterAdmins")
    /\ loc.clusterAdmins = <<>> \/ loc.i > Len(Split(loc.clusterAdmins, ","))
    /\ Goto(CUNext, <<>>, [loc EXCEPT !.i = 1])

CUAddDedicatedAdmin ==
    /\ At(CU, "dedicatedAdmins")
    /\ loc.dedicatedAdmins # <<>>
    /\ loc.i <= Len(Split(loc.dedicatedAdmins, ","))
    /\ CUAdd("dedicated-admins", loc.dedicatedAdmins)

CUDedicatedAdminsDone ==
    /\ At(CU, "dedicatedAdmins")
    /\ loc.dedicatedAdmins = <<>> \/ loc.i > Len(Split(loc.dedicatedAdmins, ","))
    /\ Goto(CUNext, <<>>, [loc EXCEPT !.i = 1])

CUReturn == At(CU, "return") /\ Return

NextCU ==
    \/ CUReporter \/ CULogger \/ CUKey \/ CUBuildAWS \/ CUGetCreator \/ CUBuildOCM
    \/ CUGetCluster \/ CUReady \/ CUPrompt \/ CUCheck \/ CUAddClusterAdmin
    \/ CUClusterAdminsDone \/ CUAddDedicatedAdmin \/ CUDedicatedAdminsDone \/ CUReturn

SpecCU == InitCU /\ [][NextCU]_vars

----------------------------------------------------------------------------
(* confirm.Confirm: true without a question under --yes, else the answer.  *)

Confirm(yes, what) ==
    IF yes THEN {[val |-> TRUE, evs |-> <<EvVal("confirm", what, TRUE, FALSE, NoVal, TRUE)>>]}
    ELSE {[val |-> v,
           evs |-> <<EvVal("prompt", what, TRUE, TRUE, NoVal, v),
                     EvVal("confirm", what, TRUE, FALSE, NoVal, v)>>] : v \in BOOLEAN}

----------------------------------------------------------------------------
(* install addon.                                                          *)

IA == "install addon"

StringParam ==
    [ID |-> "admin-password", ValueType |-> "string", Validation |-> "^[a-z]+$",
     DefaultValue |-> "", Required |-> TRUE]
NumberParam ==
    [ID |-> "size", ValueType |-> "number", Validation |-> "", DefaultValue |-> "3",
     Required |-> FALSE]
BooleanParam ==
    [ID |-> "enabled", ValueType |-> "boolean", Validation |-> "(", DefaultValue |-> "",
     Required |-> FALSE]
CidrParam ==
    [ID |-> "network", ValueType |-> "cidr", Validation |-> "", DefaultValue |-> "",
     Required |-> FALSE]
ResourceParam ==
    [ID |-> "resource", ValueType |-> "resource", Validation |-> "^[a-z]+$",
     DefaultValue |-> "", Required |-> FALSE]

AddOnParameterLists ==
    {<<>>, <<StringParam>>, <<NumberParam, StringParam>>, <<BooleanParam>>,
     <<CidrParam, NumberParam>>, <<ResourceParam>>}

\* the values a prompt of each type of parameter can end in
ParamAnswers(type) ==
    CASE type = "boolean" -> {"true", "false"}
      [] type = "cidr" -> {"<nil>", "10.0.0.0/16"}
      [] type = "number" -> {"0", "3"}
      [] type = "string" -> {"", "abc", "ABC"}
      [] OTHER -> {""}

\* regexp.MatchString on the patterns and values of the model
MatchString(pattern, val) ==
    CASE pattern = "^[a-z]+$" -> [val |-> val \in {"abc"}, err |-> NoErr]
      [] pattern = "" -> [val |-> TRUE, err |-> NoErr]
      [] OTHER -> [val |-> FALSE, err |-> "error parsing regexp"]

\* run with the confirmation asked after the installation is requested
IAStepsConfirmLate ==
    <<"argv", "key", "buildAWS", "getCreator", "buildOCM", "getCluster", "ready",
      "getParams", "param", "install", "confirm", "return", "done">>

\* run with the AWS client built ahead of the check of the cluster key
IAStepsKeyLate ==
    <<"argv", "buildAWS", "key", "getCreator", "buildOCM", "getCluster", "ready",
      "confirm", "getParams", "param", "install", "return", "done">>

IASteps ==
    <<"argv", "key", "buildAWS", "getCreator", "buildOCM", "getCluster", "ready",
      "confirm", "getParams", "param", "install", "return", "done">>

IANext == After(IASteps, pc)

InitIA ==
    /\ cmd = IA
    /\ interactive \in BOOLEAN
    /\ args \in [clusterKey : Keys, yes : BOOLEAN]
    /\ argv \in {<<>>, <<"">>, <<"codeready-workspaces">>, <<"codeready-workspaces", "x">>}
    /\ server \in [state : ClusterStates, parameters : AddOnParameterLists]
    /\ pc = IASteps[1]
    /\ loc = [addOnID |-> "", parameters |-> <<>>, params |-> <<>>, i |-> 1]
    /\ trace = <<>>
    /\ exitStatus = 0

IAArgv ==
    /\ At(IA, "argv")
    /\ IF Len(argv) # 1
       THEN Fail(<<Ev("validate", "argv", FALSE)>>,
                 "Expected exactly one command line parameters containing the identifier of the add-on.")
       ELSE IF argv[1] = ""
            THEN Fail(<<Ev("validate", "argv", TRUE), Ev("validate", "addOnID", FALSE)>>,
                      "Add-on ID is required.")
            ELSE Goto(IANext, <<Ev("validate", "argv", TRUE), Ev("validate", "addOnID", TRUE)>>,
                      [loc EXCEPT !.addOnID = argv[1]])

IAKey ==
    /\ At(IA, "key")
    /\ IF ~IsValidClusterKey(args.clusterKey)
       THEN Fail(<<Ev("validate", "clusterKey", FALSE)>>, ErrInvalidKey)
       ELSE Goto(IANext, <<Ev("validate", "clusterKey", TRUE)>>, loc)

IABuildAWS ==
    At(IA, "buildAWS") /\ Attempt(IANext, "build", "aws", "Failed to create AWS client: %v")

IAGetCreator ==
    At(IA, "getCreator") /\ Attempt(IANext, "call", "GetCreator", "Failed to get AWS creator: %v")

IABuildOCM ==
    At(IA, "buildOCM") /\ Attempt(IANext, "build", "ocm", "Failed to create OCM connection: %v")

IAGetCluster ==
    At(IA, "getCluster") /\ Attempt(IANext, "call", "GetCluster", "Failed to get cluster '%s': %v")

IAReady ==
    /\ At(IA, "ready")
    /\ IF ~IsReady(server.state)
       THEN Fail(<<Ev("validate", "ready", FALSE)>>, "Cluster '%s' is not yet ready")
       ELSE Goto(IANext, <<Ev("validate", "ready", TRUE)>>, loc)

IAConfirm ==
    /\ At(IA, "confirm")
    /\ \E c \in Confirm(args.yes, "confirm") :
         IF ~c.val THEN Finish(c.evs, 0)
         ELSE Goto(IANext, c.evs, loc)

IAGetParams ==
    /\ At(IA, "getParams")
    /\ \E ok \in BOOLEAN :
         IF ~ok THEN Fail(<<Ev("call", "GetAddOnParameters", FALSE)>>,
                          "Failed to get add-on '%s' parameters: %v")
         ELSE Goto(IANext, <<Ev("call", "GetAddOnParameters", TRUE)>>,
                   [loc EXCEPT !.parameters = server.parameters, !.i = 1])

\* a value that is never matched against the pattern
IAValidUnchecked(param, val) == TRUE

\* if param.Validation() != "" { isValid, err := regexp.MatchString(...) ... }
IAValid(param, val) ==
    LET m == MatchString(param.Validation, val)
    IN  param.Validation = "" \/ (m.err = NoErr /\ m.val)

\* one call of the function given to parameters.Each
IAParam ==
    /\ At(IA, "param")
    /\ loc.i <= Len(loc.parameters)
    /\ LET param == loc.parameters[loc.i]
           known == param.ValueType \in {"boolean", "cidr", "number", "string"}
       IN  \E err \in IF known THEN BOOLEAN ELSE {FALSE}, val \in ParamAnswers(param.ValueType) :
             LET asked == IF known
                          THEN <<EvVal("prompt", param.ID, ~err, ~err, param.DefaultValue,
                                       IF err THEN "" ELSE val)>>
                          ELSE <<>>
             IN  IF err THEN Fail(asked, "Expected a valid value for '%s': %v")
                 ELSE IF ~IAValid(param, val)
                      THEN Fail(asked \o <<Ev("validate", param.ID, FALSE)>>,
                                "Expected %v to match /%s/")
                      ELSE Goto(pc,
                                asked \o (IF param.Validation # ""
                                          THEN <<Ev("validate", param.ID, TRUE)>> ELSE <<>>),
                                [loc EXCEPT !.params = Append(@, [Key |-> param.ID, Val |-> val]),
                                            !.i = @ + 1])

IAParamsDone ==
    /\ At(IA, "param")
    /\ loc.i > Len(loc.parameters)
    /\ Goto(IANext, <<>>, loc)

IAInstall ==
    /\ At(IA, "install")
    /\ \E ok \in BOOLEAN :
         LET call == EvVal("call", "InstallAddOn", ok, FALSE, NoVal, loc.params)
         IN  IF ~ok THEN Fail(<<call>>, "Failed to add add-on installation '%s' for cluster '%s': %v")
             ELSE Goto(IANext, <<call>>, loc)

IAReturn == At(IA, "return") /\ Return

NextIA ==
    \/ IAArgv \/ IAKey \/ IABuildAWS \/ IAGetCreator \/ IABuildOCM \/ IAGetCluster
    \/ IAReady \/ IAConfirm \/ IAGetParams \/ IAParam \/ IAParamsDone \/ IAInstall
    \/ IAReturn

SpecIA == InitIA /\ [][NextIA]_vars

----------------------------------------------------------------------------
(* delete idp.                                                             *)

DI == "delete idp"

IdpNames == {"github-1", "ldap"}
Idps == [ID : {"id1", "id2"}, Name : IdpNames]
NoIdp == [ID |-> "", Name |-> ""]

DISteps ==
    <<"key", "buildAWS", "getCreator", "buildOCM", "getCluster", "getIdps", "find",
      "delete", "return", "done">>

DINext == After(DISteps, pc)

InitDI ==
    /\ cmd = DI
    /\ interactive \in BOOLEAN
    /\ args \in [clusterKey : Keys]
    /\ argv \in {<<n>> : n \in IdpNames}
    /\ server \in [idps : ListsUpTo(Idps, MaxListLen)]
    /\ pc = DISteps[1]
    /\ loc = [idpName |-> argv[1], idps |-> <<>>, idp |-> NoIdp]
    /\ trace = <<>>
    /\ exitStatus = 0

DIKey ==
    /\ At(DI, "key")
    /\ IF ~IsValidClusterKey(args.clusterKey)
       THEN Fail(<<Ev("validate", "clusterKey", FALSE)>>, ErrInvalidKey)
       ELSE Goto(DINext, <<Ev("validate", "clusterKey", TRUE)>>, loc)

DIBuildAWS ==
    At(DI, "buildAWS") /\ Attempt(DINext, "build", "aws", "Failed to create AWS client: %v")

DIGetCreator ==
    At(DI, "getCreator") /\ Attempt(DINext, "call", "GetCreator", "Failed to get AWS creator: %v")

DIBuildOCM ==
    At(DI, "buildOCM") /\ Attempt(DINext, "build", "ocm", "Failed to create OCM connection: %v")

DIGetCluster ==
    At(DI, "getCluster") /\ Attempt(DINext, "call", "GetCluster", "Failed to get cluster '%s': %v")

DIGetIdps ==
    /\ At(DI, "getIdps")
    /\ \E ok \in BOOLEAN :
         IF ~ok THEN Fail(<<Ev("call", "GetIdentityProviders", FALSE)>>,
                          "Failed to get identity providers for cluster '%s': %v")
         ELSE Goto(DINext, <<Ev("call", "GetIdentityProviders", TRUE)>>,
                   [loc EXCEPT !.idps = server.idps])

\* the loop left at the first identity provider of that name
FindIdpFirst(idps, idpName, idp) ==
    LET named == {k \in DOMAIN idps : idps[k].Name = idpName}
    IN  IF named = {} THEN idp ELSE idps[CHOOSE k \in named : \A j \in named : k <= j]

\* for _, item := range idps { if item.Name() == idpName { idp = item } }
RECURSIVE FindIdp(_, _, _)
FindIdp(idps, idpName, idp) ==
    IF idps = <<>> THEN idp
    ELSE FindIdp(Tail(idps), idpName, IF Head(idps).Name = idpName THEN Head(idps) ELSE idp)

DIFind ==
    /\ At(DI, "find")
    /\ LET idp == FindIdp(loc.idps, loc.idpName, NoIdp)
       IN  IF idp = NoIdp
           THEN Fail(<<Ev("validate", "idp", FALSE)>>,
                     "Failed to get identity provider '%s' for cluster '%s'")
           ELSE Goto(DINext, <<Ev("validate", "idp", TRUE)>>, [loc EXCEPT !.idp = idp])

DIDelete ==
    /\ At(DI, "delete")
    /\ \E c \in Confirm(FALSE, "confirm") :
         IF ~c.val THEN Goto(DINext, c.evs, loc)
         ELSE \E ok \in BOOLEAN :
                LET call == EvVal("call", "DeleteIdentityProvider", ok, FALSE, NoVal, loc.idp.ID)
                IN  IF ~ok
                    THEN Fail(c.evs \o <<call>>,
                              "Failed to delete identity provider '%s' on cluster '%s': %s")
                    ELSE Goto(DINext, c.evs \o <<call>>, loc)

DIReturn == At(DI, "return") /\ Return

NextDI ==
    \/ DIKey \/ DIBuildAWS \/ DIGetCreator \/ DIBuildOCM \/ DIGetCluster \/ DIGetIdps
    \/ DIFind \/ DIDelete \/ DIReturn

SpecDI == InitDI /\ [][NextDI]_vars

----------------------------------------------------------------------------
(* describe cluster.                                                       *)

DC == "describe cluster"

Clusters ==
    [state : {"pending", "installing", "ready", "error"}, dnsReady : BOOLEAN,
     provisionErrorMessage : {"", "timed out"}, provisionErrorCode : {"", "OCM3055"}]

\* the DNS text assigned after the provision-error text
PhaseDNSLast(cluster) ==
    LET pending == IF cluster.state = "pending" THEN <<"(Preparing account)">> ELSE <<>>
        errorCode == IF cluster.provisionErrorCode # ""
                     THEN <<cluster.provisionErrorCode, " - ">> ELSE <<>>
        late == IF cluster.state = "installing" /\ cluster.provisionErrorMessage # ""
                THEN <<"(">> \o errorCode \o <<"Install is taking longer than expected)">>
                ELSE pending
    IN  IF cluster.state = "installing" /\ ~cluster.dnsReady
        THEN <<"(DNS setup in progress)">> ELSE late

\* the text printed after the state: phase := "" and the assignments to it,
\* in the order of the code
Phase(cluster) ==
    LET pending == IF cluster.state = "pending" THEN <<"(Preparing account)">> ELSE <<>>
        dns == IF cluster.state = "installing" /\ ~cluster.dnsReady
               THEN <<"(DNS setup in progress)">> ELSE pending
        errorCode == IF cluster.provisionErrorCode # ""
                     THEN <<cluster.provisionErrorCode, " - ">> ELSE <<>>
    IN  IF cluster.state = "installing" /\ cluster.provisionErrorMessage # ""
        THEN <<"(">> \o errorCode \o <<"Install is taking longer than expected)">>
        ELSE dns

DCSteps ==
    <<"args", "key", "buildAWS", "getCreator", "buildOCM", "getCluster", "parseARN",
      "phase", "getIngresses", "getUpgrade", "print", "return", "done">>

DCNext == After(DCSteps, pc)

InitDC ==
    /\ cmd = DC
    /\ interactive \in BOOLEAN
    /\ args \in [clusterKey : Keys]
    /\ argv \in ListsUpTo({<<"a">>, <<"!">>}, MaxListLen)
    /\ server \in Clusters
    /\ pc = DCSteps[1]
    /\ loc = [clusterKey |-> <<>>, phase |-> <<>>]
    /\ trace = <<>>
    /\ exitStatus = 0

\* the positional argument ahead of the flag
ResolveKeyArgFirst(flag, positional) ==
    IF Len(positional) = 1 THEN [key |-> positional[1], checked |-> TRUE, err |-> NoErr]
    ELSE IF flag # <<>> THEN [key |-> flag, checked |-> FALSE, err |-> NoErr]
    ELSE [key |-> flag, checked |-> TRUE,
          err |-> "Expected exactly one command line argument or flag"]

\* clusterKey := args.clusterKey; if clusterKey == "" { ... clusterKey = argv[0] }
ResolveKey(flag, positional) ==
    IF flag = <<>>
    THEN IF Len(positional) # 1
         THEN [key |-> flag, checked |-> TRUE,
               err |-> "Expected exactly one command line argument or flag"]
         ELSE [key |-> positional[1], checked |-> TRUE, err |-> NoErr]
    ELSE [key |-> flag, checked |-> FALSE, err |-> NoErr]

DCArgs ==
    /\ At(DC, "args")
    /\ LET r == ResolveKey(args.clusterKey, argv)
           evs == IF r.checked THEN <<Ev("validate", "argv", r.err = NoErr)>> ELSE <<>>
       IN  IF r.err # NoErr THEN Fail(evs, r.err)
           ELSE Goto(DCNext, evs, [loc EXCEPT !.clusterKey = r.key])

DCKey ==
    /\ At(DC, "key")
    /\ IF ~IsValidClusterKey(loc.clusterKey)
       THEN Fail(<<Ev("validate", "clusterKey", FALSE)>>, ErrInvalidKey)
       ELSE Goto(DCNext, <<Ev("validate", "clusterKey", TRUE)>>, loc)

DCBuildAWS ==
    At(DC, "buildAWS") /\ Attempt(DCNext, "build", "aws", "Failed to create AWS client: %v")

DCGetCreator ==
    At(DC, "getCreator") /\ Attempt(DCNext, "call", "GetCreator", "Failed to get AWS creator: %v")

DCBuildOCM ==
    At(DC, "buildOCM") /\ Attempt(DCNext, "build", "ocm", "Failed to create OCM connection: %v")

DCGetCluster ==
    At(DC, "getCluster") /\ Attempt(DCNext, "call", "GetCluster", "Failed to get cluster '%s': %v")

DCParseARN ==
    At(DC, "parseARN")
        /\ Attempt(DCNext, "validate", "creatorARN", "Failed to parse creator ARN for cluster '%s'")

DCPhase ==
    /\ At(DC, "phase")
    /\ Goto(DCNext, <<>>, [loc EXCEPT !.phase = Phase(server)])

\* ingresses, err := ocm.GetIngresses(...): err is not looked at
DCGetIngresses ==
    /\ At(DC, "getIngresses")
    /\ \E ok \in BOOLEAN : Goto(DCNext, <<Ev("call", "GetIngresses", ok)>>, loc)

DCGetUpgrade ==
    At(DC, "getUpgrade")
        /\ Attempt(DCNext, "call", "GetScheduledUpgrade",
                   "Failed to get scheduled upgrades for cluster '%s': %v")

DCPrint ==
    /\ At(DC, "print")
    /\ Goto(DCNext, <<EvVal("print", "cluster", TRUE, FALSE, server.state, loc.phase)>>, loc)

DCReturn == At(DC, "return") /\ Return

NextDC ==
    \/ DCArgs \/ DCKey \/ DCBuildAWS \/ DCGetCreator \/ DCBuildOCM \/ DCGetCluster
    \/ DCParseARN \/ DCPhase \/ DCGetIngresses \/ DCGetUpgrade \/ DCPrint \/ DCReturn

SpecDC == InitDC /\ [][NextDC]_vars

----------------------------------------------------------------------------
(* The commands that change a cluster: install addon, create user and      *)
(* delete idp.                                                             *)

InitMutating == InitIA \/ InitCU \/ InitDI

NextMutating == NextIA \/ NextCU \/ NextDI

SpecMutating == InitMutating /\ [][NextMutating]_vars

----------------------------------------------------------------------------
(* Every command.                                                          *)

Init == InitCC \/ InitCU \/ InitIA \/ InitDI \/ InitDC

Next == NextCC \/ NextCU \/ NextIA \/ NextDI \/ NextDC

Spec == Init /\ [][Next]_vars

----------------------------------------------------------------------------
(* The validation helpers of create cluster applied on their own: args     *)
(* holds the inputs of the helper named by args.fn, loc what it returned.  *)

UnitArgs(fn, version, versionList, machineType, machineTypeList, expTime, expDuration) ==
    [fn |-> fn, version |-> version, versionList |-> versionList,
     machineType |-> machineType, machineTypeList |-> machineTypeList,
     expirationTime |-> expTime, expirationDuration |-> expDuration]

UnitInputs ==
    {UnitArgs("validateVersion", v, l, "", <<>>, <<>>, 0) :
        v \in VersionStrings, l \in ListsUpTo(VersionStrings, MaxListLen)}
    \cup {UnitArgs("validateMachineType", <<>>, <<>>, m, l, <<>>, 0) :
        m \in {""} \cup MachineTypes, l \in ListsUpTo(MachineTypes, MaxListLen)}
    \cup {UnitArgs("validateExpiration", <<>>, <<>>, "", <<>>, t, d) :
        t \in TimeStrings, d \in Durations}

InitUnit ==
    /\ cmd = "unit"
    /\ interactive = FALSE
    /\ args \in UnitInputs
    /\ argv = <<>>
    /\ server = <<>>
    /\ pc = "call"
    /\ loc = [val |-> NoVal, err |-> NoErr, now |-> 0]
    /\ trace = <<>>
    /\ exitStatus = 0

UnitValidateVersion ==
    /\ At("unit", "call") /\ args.fn = "validateVersion"
    /\ LET r == validateVersion(args.version, args.versionList)
       IN  Goto("returned", <<>>, [val |-> r.val, err |-> r.err, now |-> 0])

UnitValidateMachineType ==
    /\ At("unit", "call") /\ args.fn = "validateMachineType"
    /\ LET r == validateMachineType(args.machineType, args.machineTypeList)
       IN  Goto("returned", <<>>, [val |-> r.val, err |-> r.err, now |-> 0])

UnitValidateExpiration ==
    /\ At("unit", "call") /\ args.fn = "validateExpiration"
    /\ \E now \in Instants :
         LET r == validateExpiration(args, now)
         IN  Goto("returned", <<>>, [val |-> r.val, err |-> r.err, now |-> now])

NextUnit == UnitValidateVersion \/ UnitValidateMachineType \/ UnitValidateExpiration

SpecUnit == InitUnit /\ [][NextUnit]_vars

----------------------------------------------------------------------------
(* pkg/ocm: ClientBuilder.Build.  A pointer is a sequence: <<>> is nil and *)
(* <<x>> points to x.  args holds the builder (logger, cfg) and what Load  *)
(* finds in the configuration file; loc holds b.cfg, the setters called on *)
(* the SDK connection builder, and the values Build returns.               *)

BUILD == "ClientBuilder.Build"

ScopeLists == {<<>>, <<"nil">>, <<"openid">>}

\* Config: Scopes is <<"nil">> for a nil slice, else the slice
Configs ==
    [TokenURL : {"", "https://sso/token"}, ClientID : {"", "cloud-services"},
     ClientSecret : {"", "secret"}, Scopes : ScopeLists,
     URL : {"", "https://api"}, AccessToken : {"", "access"},
     RefreshToken : {"", "refresh"}, Insecure : BOOLEAN]

\* Load(): an error, no configuration file, or the configuration in the file
LoadResults ==
    {[cfg |-> <<>>, err |-> "load"], [cfg |-> <<>>, err |-> NoErr]}
        \cup {[cfg |-> <<c>>, err |-> NoErr] : c \in Configs}

ErrNotLoggedIn == "Not logged in, run the 'rosa login' command"
ErrNoLogger == "Logger is mandatory"
ErrNoToken == "Error creating connection. Not able to get authentication token"

BuildSteps == <<"load", "check", "logger", "prepare", "connect", "tokens", "returned">>

BuildNext == After(BuildSteps, pc)

InitBuild ==
    /\ cmd = BUILD
    /\ interactive = FALSE
    /\ \E logger \in BOOLEAN, cfg \in {<<>>} \cup {<<c>> : c \in Configs} :
         \E file \in IF cfg = <<>> THEN LoadResults ELSE {[cfg |-> <<>>, err |-> NoErr]} :
            args = [logger |-> logger, cfg |-> cfg, file |-> file]
    /\ argv = <<>>
    /\ server = <<>>
    /\ pc = BuildSteps[1]
    /\ loc = [cfg |-> args.cfg, calls |-> <<>>, result |-> <<>>, err |-> NoErr]
    /\ trace = <<>>
    /\ exitStatus = 0

\* return nil, err  and the bare return after err was set
BuildReturn(evs, err) ==
    Goto("returned", evs, [loc EXCEPT !.result = <<>>, !.err = err])

BuildLoad ==
    /\ At(BUILD, "load")
    /\ IF loc.cfg = <<>>
       THEN LET loaded == args.file
            IN  IF loaded.err # NoErr
                THEN BuildReturn(<<Ev("call", "Load", FALSE)>>, "Failed to load config file: %v")
                ELSE IF loaded.cfg = <<>>
                     THEN BuildReturn(<<Ev("call", "Load", TRUE)>>, ErrNotLoggedIn)
                     ELSE Goto(BuildNext, <<Ev("call", "Load", TRUE)>>,
                               [loc EXCEPT !.cfg = loaded.cfg])
       ELSE Goto(BuildNext, <<>>, loc)

BuildCheck ==
    /\ At(BUILD, "check")
    /\ IF ~args.logger
       THEN BuildReturn(<<Ev("validate", "logger", FALSE)>>, ErrNoLogger)
       ELSE Goto(BuildNext, <<Ev("validate", "logger", TRUE)>>, loc)

BuildLogger ==
    /\ At(BUILD, "logger")
    /\ \E ok \in BOOLEAN :
         IF ~ok THEN BuildReturn(<<Ev("build", "OCMLogger", FALSE)>>, "logger")
         ELSE Goto(BuildNext, <<Ev("build", "OCMLogger", TRUE)>>, loc)

Setter(name, val) == [setter |-> name, val |-> val]

\* the setters called on sdk.NewConnectionBuilder(), in order
BuilderCalls(cfg) ==
    LET tokens == (IF cfg.AccessToken # "" THEN <<cfg.AccessToken>> ELSE <<>>)
                      \o (IF cfg.RefreshToken # "" THEN <<cfg.RefreshToken>> ELSE <<>>)
    IN  <<Setter("Logger", <<>>)>>
            \o (IF cfg.TokenURL # "" THEN <<Setter("TokenURL", <<cfg.TokenURL>>)>> ELSE <<>>)
            \o (IF cfg.ClientID # "" \/ cfg.ClientSecret # ""
                THEN <<Setter("Client", <<cfg.ClientID, cfg.ClientSecret>>)>> ELSE <<>>)
            \o (IF cfg.Scopes # <<"nil">> THEN <<Setter("Scopes", cfg.Scopes)>> ELSE <<>>)
            \o (IF cfg.URL # "" THEN <<Setter("URL", <<cfg.URL>>)>> ELSE <<>>)
            \o (IF Len(tokens) > 0 THEN <<Setter("Tokens", tokens)>> ELSE <<>>)
            \o <<Setter("Insecure", <<cfg.Insecure>>)>>

BuildPrepare ==
    /\ At(BUILD, "prepare")
    /\ Goto(BuildNext, <<>>, [loc EXCEPT !.calls = BuilderCalls(loc.cfg[1])])

BuildConnect ==
    /\ At(BUILD, "connect")
    /\ \E ok \in BOOLEAN :
         IF ~ok THEN BuildReturn(<<Ev("build", "sdk", FALSE)>>, "connection")
         ELSE Goto(BuildNext, <<Ev("build", "sdk", TRUE)>>, loc)

\* return &Client{ocm: conn}, nil while conn.Tokens found a token
TokensIgnored(ok) == [result |-> <<[ocm |-> "conn"]>>, err |-> NoErr]

\* conn.Tokens(10 * time.Minute) and what Build returns after it
TokensChecked(ok) ==
    IF ~ok THEN [result |-> <<>>, err |-> ErrNoToken]
    ELSE [result |-> <<[ocm |-> "conn"]>>, err |-> NoErr]

BuildTokens ==
    /\ At(BUILD, "tokens")
    /\ \E ok \in BOOLEAN :
         LET r == TokensChecked(ok)
         IN  Goto(BuildNext, <<Ev("call", "Tokens", ok)>>,
                  [loc EXCEPT !.result = r.result, !.err = r.err])

NextBuild ==
    \/ BuildLoad \/ BuildCheck \/ BuildLogger \/ BuildPrepare \/ BuildConnect
    \/ BuildTokens

SpecBuild == InitBuild /\ [][NextBuild]_vars

----------------------------------------------------------------------------
(* Properties.                                                             *)

Returned(fn) == cmd = "unit" /\ pc = "returned" /\ args.fn = fn

BothExpirations == Len(args.expirationTime) > 0 /\ args.expirationDuration # 0
NoExpiration == Len(args.expirationTime) = 0 /\ args.expirationDuration = 0

Calls(what) == {i \in Events("call") : trace[i].what = what}
FailedOf(kinds) == {i \in 1..Len(trace) : trace[i].kind \in kinds /\ ~trace[i].ok}

\* what was passed to CreateCluster agrees with every validation of run
ValidSpec(s) ==
    /\ IsValidClusterKey(s.Name)
    /\ s.Region # ""
    /\ \/ s.Version = <<>>
       \/ \E v \in Range(getVersionList(server.versions)) : s.Version = <<"openshift-v">> \o v
    /\ s.ComputeMachineType \in {""} \cup Range(server.machineTypes)
    /\ ~BothExpirations
    /\ Len(args.expirationTime) > 0 => Len(args.expirationTime) = 2

\* C1: in create cluster a failed validation (cluster name, region, version,
\* machine type, expiration) ends the run with exit status 1 and without a
\* call of CreateCluster; CreateCluster is only ever called with a valid
\* name, a non-empty region, an accepted version and machine type and
\* expiration flags that validateExpiration accepts.
C1_ValidationBeforeCreate ==
    cmd = CC =>
        /\ FailedOf({"validate"}) # {} =>
               Calls("CreateCluster") = {} /\ pc = "done" /\ exitStatus = 1
        /\ \A i \in Calls("CreateCluster") : ValidSpec(trace[i].val)

C1_Witness ==
    /\ cmd = CC /\ pc = "done" /\ exitStatus = 1
    /\ \E i \in FailedOf({"validate"}) : trace[i].what = "region"
    /\ Calls("CreateCluster") = {}

\* C2: a run that has ended after a failed validation step or a failed
\* remote API call (or a client or connection that could not be built) has
\* exit status 1.
C2_FailureExitsOne ==
    (pc = "done" /\ FailedOf({"validate", "build", "call"}) # {}) => exitStatus = 1

KeyCommands == {IA, DI, CU, DC}
KeyChecked == IF cmd = DC THEN loc.clusterKey ELSE args.clusterKey

\* C3: in install addon, delete idp, create user and describe cluster no AWS
\* client and no OCM connection is built and no request is sent unless the
\* cluster key passed IsValidClusterKey; a key that fails is reported and
\* ends the run with exit status 1 before anything else than the checks of
\* the command line took place.
C3_KeyBeforeClients ==
    cmd \in KeyCommands =>
        /\ Events("build") \cup Events("call") # {} => IsValidClusterKey(KeyChecked)
        /\ \A i \in FailedOf({"validate"}) : trace[i].what = "clusterKey" =>
              /\ pc = "done" /\ exitStatus = 1
              /\ Len(trace) = i + 1
              /\ trace[i + 1] = Ev("error", ErrInvalidKey, TRUE)
              /\ \A j \in 1..(i - 1) : trace[j].kind \in {"validate", "make"} /\ trace[j].ok

C3_Witness ==
    /\ cmd = IA /\ pc = "done" /\ exitStatus = 1
    /\ ~IsValidClusterKey(args.clusterKey)
    /\ \E i \in FailedOf({"validate"}) : trace[i].what = "clusterKey"
    /\ Events("build") \cup Events("call") = {}

\* C4: validateExpiration returns the "at most one" error exactly when
\* expiration-time is non-empty and the expiration duration is non-zero, and
\* with both unset it returns the zero time and no error.
C4_ExpirationExclusive ==
    Returned("validateExpiration") =>
        /\ BothExpirations => loc.err = ErrAtMostOne
        /\ ~BothExpirations => loc.err # ErrAtMostOne
        /\ NoExpiration => loc.val = 0 /\ loc.err = NoErr

C4_Witness ==
    Returned("validateExpiration") /\ BothExpirations /\ loc.err = ErrAtMostOne

\* C5: for a non-empty value, validateVersion and validateMachineType return
\* an error exactly when the value is not in the list; a listed version comes
\* back with the prefix "openshift-v", a listed machine type unchanged; the
\* empty value is accepted and returned unchanged by both.
C5_AllowList ==
    /\ Returned("validateVersion") =>
         IF args.version = <<>> THEN loc.err = NoErr /\ loc.val = <<>>
         ELSE /\ loc.err # NoErr <=> args.version \notin Range(args.versionList)
              /\ args.version \in Range(args.versionList) =>
                    loc.val = <<"openshift-v">> \o args.version
    /\ Returned("validateMachineType") =>
         IF args.machineType = "" THEN loc.err = NoErr /\ loc.val = ""
         ELSE /\ loc.err # NoErr <=> args.machineType \notin Range(args.machineTypeList)
              /\ args.machineType \in Range(args.machineTypeList) =>
                    loc.val = args.machineType

C5_Witness ==
    /\ Returned("validateVersion")
    /\ Len(args.versionList) = 2
    /\ args.version = args.versionList[2]
    /\ args.version # args.versionList[1]
    /\ loc.val = <<"openshift-v">> \o args.version

\* C6: once the region of create cluster is resolved to a value that is not
\* in the fetched regionList, CreateCluster is not called and the run ends
\* with exit status 1.
C6_RegionInList ==
    (cmd = CC /\ Happened("validate", "region") /\ FailedOf({"validate"}) = {}
        /\ loc.region \notin Range(loc.regionList)) =>
            /\ Calls("CreateCluster") = {}
            /\ pc = "done" => exitStatus = 1

IsAttempt(e) == e.kind = "make" /\ e.what = "user"
IsAddUser(e) == e.kind = "call" /\ e.what = "AddUser"
Attempts == SelectSeq(trace, IsAttempt)
Targets(e) == <<e.dflt, e.val>>
Expected(group, list) ==
    IF list = <<>> THEN <<>>
    ELSE LET names == Split(list, ",") IN [i \in 1..Len(names) |-> <<group, names[i]>>]
AllExpected ==
    Expected("cluster-admins", loc.clusterAdmins)
        \o Expected("dedicated-admins", loc.dedicatedAdmins)
IsPrefix(s, t) == Len(s) <= Len(t) /\ \A i \in 1..Len(s) : s[i] = t[i]

\* C7: create user attempts the elements of cluster-admins in order and then
\* those of dedicated-admins in order, each exactly once whatever became of
\* the attempts before it; every user that could be built is sent in one Add
\* request right after it was built, and no other Add request is sent.
C7_EveryUserOnce ==
    cmd = CU =>
        /\ IsPrefix([i \in 1..Len(Attempts) |-> Targets(Attempts[i])], AllExpected)
        /\ (pc = "return" \/ Happened("close", "ocm")) => Len(Attempts) = Len(AllExpected)
        /\ \A i \in 1..Len(trace) :
              /\ (IsAttempt(trace[i]) /\ trace[i].ok) =>
                     /\ i < Len(trace) /\ IsAddUser(trace[i + 1])
                     /\ Targets(trace[i + 1]) = Targets(trace[i])
              /\ IsAddUser(trace[i]) => i > 1 /\ IsAttempt(trace[i - 1]) /\ trace[i - 1].ok

C7_Witness ==
    /\ cmd = CU /\ pc = "done" /\ Happened("close", "ocm")
    /\ Len(Attempts) = 4
    /\ ~Attempts[1].ok
    /\ \E i \in Calls("AddUser") : ~trace[i].ok
    /\ \E i \in Calls("AddUser") : trace[i].ok /\ trace[i].dflt = "dedicated-admins"

Connections == {i \in Events("build") : trace[i].what = "ocm"}
Checks == Events("validate") \cup Events("prompt")
ArgChecks == {i \in Events("validate") : trace[i].what \in {"argv", "addOnID", "clusterKey"}}

\* C8 (as stated): no validation step and no prompt comes after the OCM
\* connection was built.
C8_ConnectionLast ==
    \A i \in Connections : \A j \in Checks : j < i

\* C8 (amended): every prompt comes after the OCM connection was built; in
\* install addon, delete idp, create user and describe cluster the checks of
\* the command line and of the cluster key come before any client or
\* connection is built; in create cluster every validation step comes after
\* the connection was built.
C8_ConnectionBeforePrompts ==
    /\ \A j \in Events("prompt") : \E i \in Connections : i < j /\ trace[i].ok
    /\ cmd \in KeyCommands => \A j \in ArgChecks : \A i \in Events("build") : j < i
    /\ cmd = CC => \A j \in Events("validate") : \E i \in Connections : i < j /\ trace[i].ok

C8_Witness ==
    /\ cmd = CC /\ pc = "done" /\ exitStatus = 0
    /\ \E i \in Connections : \E j \in Events("prompt") : i < j
    /\ \E i \in Connections : \E j \in Events("validate") : i < j

PromptFields ==
    <<"name", "region", "version", "multiAZ", "computeMachineType", "computeNodes",
      "machineCIDR", "serviceCIDR", "podCIDR", "hostPrefix", "private">>
SpecField ==
    [name |-> "Name", region |-> "Region", version |-> "Version", multiAZ |-> "MultiAZ",
     computeMachineType |-> "ComputeMachineType", computeNodes |-> "ComputeNodes",
     machineCIDR |-> "MachineCIDR", serviceCIDR |-> "ServiceCIDR", podCIDR |-> "PodCIDR",
     hostPrefix |-> "HostPrefix", private |-> "Private"]
RegionOfSession == trace[CHOOSE i \in Calls("GetRegion") : TRUE].val
FlagValue(f) == IF f = "region" THEN RegionOfSession ELSE args[f]
\* the field of the Spec in non-interactive mode
NonInteractive(f) ==
    CASE f = "version" -> validateVersion(args.version, getVersionList(server.versions)).val
      [] f = "computeMachineType" ->
             validateMachineType(args.computeMachineType, server.machineTypes).val
      [] OTHER -> FlagValue(f)

\* C9: each prompt of create cluster is asked with the value of its flag as
\* default (the region prompt with what aws.GetRegion returned); after an
\* empty answer the field passed to CreateCluster is what non-interactive
\* mode derives from that value.
C9_PromptDefaults ==
    cmd = CC =>
        \A j \in Events("prompt") :
            /\ trace[j].dflt = FlagValue(trace[j].what)
            /\ (trace[j].ok /\ ~trace[j].given) =>
                  \A i \in Calls("CreateCluster") :
                      trace[i].val[SpecField[trace[j].what]] = NonInteractive(trace[j].what)

C9_Witness ==
    /\ cmd = CC /\ interactive /\ args.version # <<>>
    /\ \E i \in Calls("CreateCluster") :
          trace[i].val.Version = <<"openshift-v">> \o args.version
    /\ \E j \in Events("prompt") :
          trace[j].what = "version" /\ trace[j].ok /\ ~trace[j].given

Prompted == {trace[j].what : j \in Events("prompt")}
StepIndex(p) == CHOOSE i \in 1..Len(CCSteps) : CCSteps[i] = p
IsPrompt(e) == e.kind = "prompt"
PromptsAsked == SelectSeq(trace, IsPrompt)

\* C10 (as stated): in interactive mode a field is prompted for only when
\* its flag was not given.
C10_OnlyMissingPrompted ==
    cmd = CC => \A f \in Prompted : args[f] = CCDefaults[f]

\* C10 (amended): in interactive mode create cluster prompts for every
\* field in turn as run reaches it, whether its flag was given or not; in
\* non-interactive mode it prompts for nothing.
C10_EveryFieldPrompted ==
    cmd = CC =>
        /\ ~interactive => Prompted = {}
        /\ interactive =>
              /\ IsPrefix([i \in 1..Len(PromptsAsked) |-> PromptsAsked[i].what], PromptFields)
              /\ pc # "done" =>
                    \A f \in Range(PromptFields) :
                        StepIndex(f) < StepIndex(pc) => f \in Prompted
              /\ Calls("CreateCluster") # {} => Prompted = Range(PromptFields)

C10_Witness ==
    /\ cmd = CC /\ interactive /\ Calls("CreateCluster") # {}
    /\ args.name # <<>> /\ args.region # ""
    /\ {"name", "region"} \subseteq Prompted

BuildReturned == cmd = BUILD /\ pc = "returned"
ConfigAvailable == args.cfg # <<>> \/ args.file.cfg # <<>>
NoConfigAnywhere == args.cfg = <<>> /\ args.file = [cfg |-> <<>>, err |-> NoErr]
BuildOutcome ==
    /\ \/ loc.result # <<>> /\ loc.err = NoErr
       \/ loc.result = <<>> /\ loc.err # NoErr
    /\ loc.result # <<>> =>
          /\ ConfigAvailable /\ args.logger
          /\ \E i \in Events("build") : trace[i].what = "sdk" /\ trace[i].ok
          /\ \E i \in Calls("Tokens") : trace[i].ok
    /\ NoConfigAnywhere => loc.err = ErrNotLoggedIn

\* C11 (as stated): Build returns a Client and no error only with a
\* configuration, a logger, a built connection and a token, and nil with an
\* error otherwise; without any configuration the error is 'Not logged in',
\* and without a logger it is 'Logger is mandatory'.
C11_BuildResult ==
    BuildReturned => BuildOutcome /\ (~args.logger => loc.err = ErrNoLogger)

\* C11 (amended): as above, except that 'Logger is mandatory' is the error
\* of a builder without a logger only when a configuration is available
\* (given or loaded); the configuration is looked at first.
C11_BuildResultConfigFirst ==
    BuildReturned =>
        /\ BuildOutcome
        /\ (~args.logger /\ ConfigAvailable) => loc.err = ErrNoLogger
        /\ (~args.logger /\ ~ConfigAvailable) => loc.err # ErrNoLogger

C11_Witness ==
    /\ BuildReturned /\ ~args.logger /\ args.cfg = <<>> /\ args.file.cfg # <<>>
    /\ loc.err = ErrNoLogger /\ loc.result = <<>>

NonEmptyValues(call) ==
    CASE call.setter = "Logger" -> TRUE
      [] call.setter = "Insecure" -> call.val[1]
      [] call.setter = "Scopes" -> call.val # <<>>
      [] OTHER -> \A k \in 1..Len(call.val) : call.val[k] # ""

\* C15: every value a setter of the SDK connection builder receives from
\* Build is a non-empty (non-zero) value of the configuration: token URL,
\* client id, client secret, scopes, URL, access and refresh token, insecure.
C15_OnlyExplicitValues ==
    cmd = BUILD => \A i \in 1..Len(loc.calls) : NonEmptyValues(loc.calls[i])

\* C12: describe cluster takes the cluster key from the --cluster flag when
\* it is not empty, whatever the positional arguments; with an empty flag the
\* key is the positional argument when there is exactly one, and otherwise
\* the run ends with exit status 1 before any AWS client, OCM connection or
\* request.
C12_KeyResolution ==
    (cmd = DC /\ pc # "args") =>
        /\ args.clusterKey # <<>> => loc.clusterKey = args.clusterKey
        /\ (args.clusterKey = <<>> /\ Len(argv) = 1) => loc.clusterKey = argv[1]
        /\ (args.clusterKey = <<>> /\ Len(argv) # 1) =>
              /\ pc = "done" /\ exitStatus = 1
              /\ Events("build") \cup Events("call") = {}
        /\ Events("build") \cup Events("call") # {} => IsValidClusterKey(loc.clusterKey)

C12_Witness ==
    /\ cmd = DC /\ args.clusterKey # <<>> /\ Len(argv) = 2
    /\ argv[1] # args.clusterKey
    /\ loc.clusterKey = args.clusterKey /\ Calls("GetCluster") # {}

NoListGiven == args.clusterAdmins = <<>> /\ args.dedicatedAdmins = <<>>
ListPrompts == {i \in Events("prompt") : trace[i].what \in {"cluster-admins", "dedicated-admins"}}

\* C13: create user asks for the two lists of usernames only when both
\* --cluster-admins and --dedicated-admins are empty, and then it asks; with
\* both lists still empty after flags and prompts the run ends with exit
\* status 1 and no user is built or added.
C13_PromptWithoutLists ==
    cmd = CU =>
        /\ ListPrompts # {} => NoListGiven
        /\ (NoListGiven /\ Happened("validate", "admins")) =>
              \E i, j \in ListPrompts :
                  /\ i < j /\ trace[i].ok /\ trace[j].ok
                  /\ trace[i].what = "cluster-admins" /\ trace[j].what = "dedicated-admins"
                  /\ loc.clusterAdmins = trace[i].val /\ loc.dedicatedAdmins = trace[j].val
        /\ (~NoListGiven /\ Happened("validate", "admins")) =>
              loc.clusterAdmins = args.clusterAdmins /\ loc.dedicatedAdmins = args.dedicatedAdmins
        /\ \A i \in Events("validate") : trace[i].what = "admins" =>
              (trace[i].ok <=> ~(loc.clusterAdmins = <<>> /\ loc.dedicatedAdmins = <<>>))
        /\ \A i \in FailedOf({"validate"}) : trace[i].what = "admins" =>
              /\ pc = "done" /\ exitStatus = 1
              /\ Calls("AddUser") = {} /\ Len(Attempts) = 0

C13_Witness ==
    /\ cmd = CU /\ pc = "done" /\ exitStatus = 1 /\ NoListGiven
    /\ Cardinality(ListPrompts) = 2
    /\ \E i \in FailedOf({"validate"}) : trace[i].what = "admins"

\* C14: the prompts of create cluster are asked in the order name, region,
\* version, multiAZ, machine type, compute nodes, machine CIDR, service CIDR,
\* pod CIDR, host prefix, private, each at most once and only after every
\* earlier prompt returned without error; a prompt that returns an error is
\* the last step of the run, which ends with exit status 1 and without
\* CreateCluster.
C14_PromptOrder ==
    cmd = CC =>
        /\ Len(PromptsAsked) <= Len(PromptFields)
        /\ \A k \in 1..Len(PromptsAsked) :
              /\ PromptsAsked[k].what = PromptFields[k]
              /\ k < Len(PromptsAsked) => PromptsAsked[k].ok
        /\ \A i \in FailedOf({"prompt"}) :
              /\ pc = "done" /\ exitStatus = 1
              /\ Len(trace) = i + 1 /\ trace[i + 1].kind = "error"
              /\ Calls("CreateCluster") = {}

C14_Witness ==
    /\ cmd = CC /\ pc = "done" /\ exitStatus = 1
    /\ Len(PromptsAsked) = 6
    /\ ~PromptsAsked[6].ok

\* C16: with only the expiration duration d given (d # 0), validateExpiration
\* returns now + d rounded up to a whole second: a whole-second instant not
\* earlier than now + d and less than a second later.
C16_RoundedUp ==
    (Returned("validateExpiration") /\ args.expirationDuration # 0
        /\ Len(args.expirationTime) = 0) =>
            /\ loc.err = NoErr
            /\ loc.val % TicksPerSecond = 0
            /\ loc.val >= loc.now + args.expirationDuration
            /\ loc.val < loc.now + args.expirationDuration + TicksPerSecond

Matches(param, val) ==
    param.Validation # "" => MatchString(param.Validation, val) = [val |-> TRUE, err |-> NoErr]

\* C17: install addon sends InstallAddOn only when no parameter prompt failed
\* and every parameter with a validation pattern has a matching value; a
\* failed prompt or a value that does not match ends the run with exit status
\* 1 and without InstallAddOn.  The request carries one (ID, value) entry per
\* parameter of the add-on, in the order the parameters were returned.
C17_ParametersChecked ==
    cmd = IA =>
        /\ \A i \in Calls("InstallAddOn") :
              LET params == trace[i].val
              IN  /\ FailedOf({"prompt", "validate"}) = {}
                  /\ Len(params) = Len(server.parameters)
                  /\ \A k \in 1..Len(params) :
                        /\ params[k].Key = server.parameters[k].ID
                        /\ Matches(server.parameters[k], params[k].Val)
        /\ FailedOf({"prompt", "validate"}) # {} =>
              pc = "done" /\ exitStatus = 1 /\ Calls("InstallAddOn") = {}

C17_Witness ==
    /\ cmd = IA /\ pc = "done" /\ exitStatus = 0
    /\ \E i \in Calls("InstallAddOn") :
          /\ Len(trace[i].val) = 2
          /\ trace[i].val[2] = [Key |-> "admin-password", Val |-> "abc"]

GotCluster == \E i \in Calls("GetCluster") : trace[i].ok

\* C18: when the cluster that GetCluster returned to install addon or create
\* user is not ready, the run ends with exit status 1 right after the test of
\* the state: nothing is asked (no confirmation, no parameter, no list of
\* usernames), no add-on parameters are fetched, no InstallAddOn request is
\* sent and no user is built or added.
C18_ReadyClusterOnly ==
    (cmd \in {IA, CU} /\ server.state # "ready") =>
        /\ Events("prompt") \cup Events("confirm") = {}
        /\ Calls("GetAddOnParameters") \cup Calls("InstallAddOn") \cup Calls("AddUser") = {}
        /\ Len(Attempts) = 0
        /\ (GotCluster /\ pc # "ready") => pc = "done" /\ exitStatus = 1

C18_Witness ==
    /\ cmd = IA /\ server.state # "ready" /\ GotCluster
    /\ pc = "done" /\ exitStatus = 1 /\ ~args.yes
    /\ \E i \in FailedOf({"validate"}) : trace[i].what = "ready"

Mutations == Calls("InstallAddOn") \cup Calls("DeleteIdentityProvider")
Confirmed == {i \in Events("confirm") : trace[i].val}
Declined == {i \in Events("confirm") : ~trace[i].val}

\* C19: install addon sends InstallAddOn, and delete idp sends the Delete of
\* the identity provider, only after confirm.Confirm returned true earlier in
\* the run; once confirm.Confirm returned false no such request is sent, no
\* add-on parameters are fetched, and the run ends with exit status 0:
\* install addon at once, delete idp through its normal return.
C19_ConfirmedFirst ==
    cmd \in {IA, DI} =>
        /\ \A i \in Mutations : \E j \in Confirmed : j < i
        /\ Declined # {} =>
              /\ Mutations \cup Calls("GetAddOnParameters") = {}
              /\ exitStatus = 0
              /\ IF cmd = IA THEN pc = "done" /\ Events("close") = {}
                 ELSE pc \in {"return", "done"}

C19_Witness ==
    /\ cmd = DI /\ pc = "done" /\ exitStatus = 0
    /\ Declined # {} /\ Events("close") # {}

Deletes == Calls("DeleteIdentityProvider")
Named == {k \in DOMAIN server.idps : server.idps[k].Name = argv[1]}
LastNamed == CHOOSE k \in Named : \A j \in Named : j <= k
Listed == \E i \in Calls("GetIdentityProviders") : trace[i].ok

\* C20: delete idp sends at most one Delete, and only for the ID of the last
\* identity provider of the list of the cluster whose name is the positional
\* argument; when the list holds no provider of that name the run ends with
\* exit status 1 once the list is searched, with no confirmation asked and
\* no Delete sent.
C20_DeleteNamedIdp ==
    cmd = DI =>
        /\ Cardinality(Deletes) <= 1
        /\ \A i \in Deletes :
              /\ Listed
              /\ Named # {}
              /\ trace[i].val = server.idps[LastNamed].ID
        /\ Named = {} =>
              /\ Deletes \cup Events("confirm") \cup Events("prompt") = {}
              /\ (Listed /\ pc # "find") => pc = "done" /\ exitStatus = 1

C20_Witness ==
    /\ cmd = DI /\ pc = "done" /\ exitStatus = 0
    /\ Cardinality(Named) = 2
    /\ server.idps[1].ID # server.idps[2].ID
    /\ \E i \in Deletes : trace[i].ok /\ trace[i].val = server.idps[2].ID

HasVersionPrefix(id) == Len(id) > 0 /\ Head(id) = VersionPrefix[1]
Placed == {trace[i].val.Version : i \in Calls("CreateCluster")}

\* the entry derived from an ID that begins with "openshift-v" is accepted
\* against the list and validateVersion returns the ID itself
RoundTrip ==
    LET versionList == getVersionList(server.versions)
    IN  \A i \in DOMAIN server.versions :
          HasVersionPrefix(server.versions[i]) =>
              validateVersion(versionList[i], versionList)
                  = [val |-> server.versions[i], err |-> NoErr]

Printed == {i \in Events("print") : trace[i].what = "cluster"}

\* the phase text that goes with a state and a status
PhaseText(cluster) ==
    CASE cluster.state = "pending" -> <<"(Preparing account)">>
      [] cluster.state = "installing" /\ cluster.provisionErrorMessage # ""
            /\ cluster.provisionErrorCode # "" ->
                <<"(", cluster.provisionErrorCode, " - ", "Install is taking longer than expected)">>
      [] cluster.state = "installing" /\ cluster.provisionErrorMessage # ""
            /\ cluster.provisionErrorCode = "" ->
                <<"(", "Install is taking longer than expected)">>
      [] cluster.state = "installing" /\ cluster.provisionErrorMessage = ""
            /\ ~cluster.dnsReady -> <<"(DNS setup in progress)">>
      [] OTHER -> <<>>

\* C22: describe cluster prints, after the state, a phase text fixed by the
\* state and the status alone: "(Preparing account)" when pending; when
\* installing, the provision-error text (with the error code in front when
\* there is one) if there is a provision error message, else the DNS text
\* if DNS is not ready, else nothing; and nothing for every other state.
C22_PhaseText ==
    cmd = DC =>
        \A i \in Printed :
            /\ trace[i].dflt = server.state
            /\ trace[i].val = PhaseText(server)

C22_Witness ==
    /\ cmd = DC /\ pc = "done" /\ exitStatus = 0
    /\ server.state = "installing" /\ ~server.dnsReady
    /\ server.provisionErrorCode = "OCM3055"
    /\ \E i \in Printed :
          trace[i].val = <<"(", "OCM3055", " - ", "Install is taking longer than expected)">>

Closes == Events("close")
Connected == {i \in Events("build") : trace[i].what = "ocm" /\ trace[i].ok}
\* the run ended in os.Exit: an error exit, or the declined confirmation of
\* install addon
Exited == pc = "done" /\ (exitStatus = 1 \/ (cmd = IA /\ Declined # {}))
ReturnedNormally == pc = "done" /\ ~Exited

\* C23: in every command the OCM connection is closed at most once in a run;
\* it is closed exactly when run has returned normally, which happens only
\* after the connection was built, and the Close is the last thing the run
\* does (but for the report of its failure); a run that ended in os.Exit has
\* not closed the connection.
C23_CloseOnReturn ==
    cmd \in {CC, CU, IA, DI, DC} =>
        /\ Cardinality(Closes) <= 1
        /\ Closes # {} <=> ReturnedNormally
        /\ \A i \in Closes :
              /\ \E j \in Connected : j < i
              /\ \A k \in (i + 1)..Len(trace) : trace[k].kind = "error"
        /\ Exited => Closes = {}

C23_Witness ==
    /\ cmd = CU /\ pc = "done" /\ exitStatus = 0
    /\ Connected # {} /\ Closes # {}
    /\ Calls("AddUser") # {}

====
